---- MODULE Spec2Model ----
(***************************************************************************)
(* The class store of bolt_pole_booking (src/unnamed/part_000, the zustand *)
(* store `useStore`) over a Firestore `classes` collection.                *)
(*                                                                         *)
(* Every store operation is an async function; it is modelled as one       *)
(* action per suspension point: the call itself (the synchronous prefix up *)
(* to the first await), then one action per awaited store call.  Time is   *)
(* counted in days; ISO datetime strings of one format compare like the    *)
(* instants they denote, so datetimes are integers.                        *)
(***************************************************************************)
EXTENDS Integers, Sequences, FiniteSets, TLC

VARIABLES
    classesDb,   \* the `classes` collection: document id -> document
    usersDb,     \* the `users` collection: user id -> document
    nextId,      \* source of the random ids (doc(collection()), randomUUID)
    now,         \* the wall clock, new Date()
    user,        \* store.user of each session
    classes,     \* store.classes of each session (the published list)
    call,        \* the store operation each session has in flight
    nCalls,      \* number of store operations started so far
    genStart,    \* calendar run: the start instant of the recurring draft
    genBatch,    \* calendar run: the batch addClass built for it
    active,      \* the sessions (browser tabs) that are open
    schoolsDb,   \* the `schools` collection: school id -> document
    school,      \* store.school of each session
    authUser,    \* auth.currentUser of each session (a uid, or NoUid)
    accounts,    \* the identity service: uid -> email and password
    isLoading,   \* store.isLoading of each session
    listener     \* the onAuthStateChanged observer of each session

listenVars == <<isLoading, listener>>

acctVars == <<schoolsDb, school, authUser, accounts, listenVars>>

vars == <<classesDb, usersDb, nextId, now, user, classes, call, nCalls,
          genStart, genBatch, active, acctVars>>

(***************************** bounds **************************************)
\* In Spec a series runs to HorizonDays after its start instead of one civil
\* year (3 occurrences instead of 53); SpecGen builds the batch with addYears.
HorizonDays == 21
MaxNow      == 21   \* the clock stops here
MaxCalls    == 2    \* store operations per behaviour
MaxEvents   == 2    \* auth-state events waiting for the observer
TickDays    == 7    \* the clock advances in steps of this many days

(************************** program constants ******************************)
NULL     == 0       \* baseId: null (no series)
WeekDays == 7       \* weekly recurrence step
DaysInYear     == 365
DaysInLeapYear == 366
LastOfFeb      == 58    \* day of year (from 0) of 28 February

\* the places where a store operation can be in flight: one in browser tab "a",
\* one in tab "b", and a second one, "a2", in tab "a"
Sessions == {"a", "b", "a2"}
\* the store (tab) an operation runs in
StoreOf == [s \in Sessions |-> IF s = "a2" THEN "a" ELSE s]
\* whose browser the session is
SessionUser == [s \in Sessions |-> IF StoreOf[s] = "a" THEN "u1" ELSE "u2"]
NoUid == ""
Schools  == {"s1", "s2"}
Students == {"u1", "u2"}
Teachers == {"t1", "t2"}
StartDates == {0}
NoSchool == ""
NoUser == [id |-> NoUid, email |-> "", name |-> "", role |-> "", schoolId |-> NoSchool]
NoSchoolDoc == [id |-> NoSchool, name |-> "", teacherIds |-> <<>>]
\* the ids doc(collection(db, 'schools')) can draw
SchoolRefs == {"s3", "s4"}
SchoolForms == {[name |-> "studio"]}
\* the profile forms: name, email, currentPassword, newPassword
Profiles ==
    [name : {"n1", "n2"}, email : {"e1", "e3"},
     currentPassword : {"", "pw1", "pw2"}, newPassword : {"", "pw2"}]

\* what the callers pass in
Drafts ==
    {[title |-> "pole", datetime |-> d, maxStudents |-> 1,
      enrolledStudents |-> <<>>, isRecurring |-> r, schoolId |-> s] :
        d \in StartDates, r \in BOOLEAN, s \in Schools}
Patches ==
    {[maxStudents |-> 2],
     [title |-> "flex", datetime |-> 10, maxStudents |-> 1, isRecurring |-> FALSE]}

Range(s) == {s[i] : i \in DOMAIN s}

(************************ occurrence generator *****************************)
RECURSIVE generateRecurringDates(_, _)
generateRecurringDates(startDate, endDate) ==
    IF startDate < endDate
    THEN <<startDate>> \o generateRecurringDates(startDate + WeekDays, endDate)
    ELSE <<>>

\* date-fns addYears(date, 1) on the civil calendar; day 0 is 1 January of a
\* leap year, a four-year cycle has 3 * 365 + 366 days.
CycleDays == 3 * DaysInYear + DaysInLeapYear
\* variant: a year taken as 52 weeks
addYears_52Weeks(date) == date + 52 * WeekDays

addYears(date) ==
    LET d   == date % CycleDays
        inLeap == d < DaysInLeapYear
        y   == IF inLeap THEN 0 ELSE 1 + ((d - DaysInLeapYear) \div DaysInYear)
        doy == IF inLeap THEN d ELSE (d - DaysInLeapYear) % DaysInYear
    IN  IF inLeap
        THEN (IF doy <= LastOfFeb THEN date + DaysInLeapYear ELSE date + DaysInYear)
        ELSE IF y = 3 /\ doy > LastOfFeb THEN date + DaysInLeapYear
        ELSE date + DaysInYear

\* the horizon addClass uses in the store model (scaled by HorizonDays)
horizonOf(startDate) == startDate + HorizonDays

(****************************** Firestore **********************************)
Ids(db) == DOMAIN db

\* variant: a plain push instead of the set union
arrayUnion_Push(arr, x) == Append(arr, x)

\* arrayUnion / arrayRemove field transforms
arrayUnion(arr, x) == IF x \in Range(arr) THEN arr ELSE Append(arr, x)
arrayRemove(arr, x) == SelectSeq(arr, LAMBDA e : e # x)

\* variant: an update also empties the document's enrolledStudents
Merge_ResetMembers(d, data) ==
    [f \in DOMAIN d \cup DOMAIN data |->
        IF f = "enrolledStudents" THEN <<>>
        ELSE IF f \in DOMAIN data THEN data[f] ELSE d[f]]

\* updateDoc / batch.update(ref, data): the fields of data replace the document's
Merge(d, data) ==
    [f \in DOMAIN d \cup DOMAIN data |-> IF f \in DOMAIN data THEN data[f] ELSE d[f]]

\* variant: the union is applied only while the document has a free spot
WriteResult_Capped(db, w) ==
    CASE w.kind = "set"    -> w.data
      [] w.kind = "update" -> Merge(db[w.id], w.data)
      [] w.kind = "union"  ->
            IF Len(db[w.id].enrolledStudents) < db[w.id].maxStudents
            THEN [db[w.id] EXCEPT !.enrolledStudents = arrayUnion(@, w.data)]
            ELSE db[w.id]
      [] w.kind = "remove" ->
            [db[w.id] EXCEPT !.enrolledStudents = arrayRemove(@, w.data)]

\* one write of a batch (or a single setDoc/updateDoc/deleteDoc) on document w.id
WriteResult(db, w) ==
    CASE w.kind = "set"    -> w.data
      [] w.kind = "update" -> Merge(db[w.id], w.data)
      [] w.kind = "union"  ->
            [db[w.id] EXCEPT !.enrolledStudents = arrayUnion(@, w.data)]
      [] w.kind = "remove" ->
            [db[w.id] EXCEPT !.enrolledStudents = arrayRemove(@, w.data)]

NeedsDoc(w) == w.kind \in {"update", "union", "remove"}

\* variant: the store also refuses a union on a document without a free spot
CanCommit_HasSpot(db, batch) ==
    \A w \in batch :
        /\ NeedsDoc(w) => w.id \in Ids(db)
        /\ (w.kind = "union" /\ w.id \in Ids(db)) =>
                Len(db[w.id].enrolledStudents) < db[w.id].maxStudents

\* update on a missing document makes the write (the whole batch) fail
CanCommit(db, batch) == \A w \in batch : NeedsDoc(w) => w.id \in Ids(db)

\* variant: of a batch on stored documents (updates, deletes) only the write on
\* the least document id is applied
Commit_Partial(db, batch) ==
    LET first == {w \in batch : w.kind = "set" \/ \A x \in batch : w.id <= x.id}
        deleted == {w.id : w \in {x \in first : x.kind = "delete"}}
        written == {w.id : w \in {x \in first : x.kind # "delete"}}
    IN  [i \in (Ids(db) \cup written) \ deleted |->
            IF i \in written
            THEN WriteResult(db, CHOOSE w \in first : w.id = i /\ w.kind # "delete")
            ELSE db[i]]

\* batch.commit(): all writes at once
Commit(db, batch) ==
    LET deleted == {w.id : w \in {x \in batch : x.kind = "delete"}}
        written == {w.id : w \in {x \in batch : x.kind # "delete"}}
    IN  [i \in (Ids(db) \cup written) \ deleted |->
            IF i \in written
            THEN WriteResult(db, CHOOSE w \in batch : w.id = i /\ w.kind # "delete")
            ELSE db[i]]

\* query(where(field == v), where(datetime >= from)): the matching ids
QuerySeries(db, baseId, from) ==
    {i \in Ids(db) : db[i].baseId = baseId /\ db[i].datetime >= from}
QuerySchool(db, schoolId, from) ==
    {i \in Ids(db) : db[i].schoolId = schoolId /\ db[i].datetime >= from}

\* a snapshot's documents, in the order of the range field, then of the id
Before(d, e) == d.datetime < e.datetime \/ (d.datetime = e.datetime /\ d.id < e.id)
RECURSIVE Sorted(_)
Sorted(S) ==
    IF S = {} THEN <<>>
    ELSE LET m == CHOOSE d \in S : \A e \in S \ {d} : Before(d, e)
         IN  <<m>> \o Sorted(S \ {m})

(***************************** the store ***********************************)
NoClass == [id |-> 0, title |-> "", datetime |-> 0, maxStudents |-> 0,
            enrolledStudents |-> <<>>, isRecurring |-> FALSE, baseId |-> NULL,
            schoolId |-> NoSchool]

\* the argument of updateProfile (lines 151); "" is an empty form field
NoProfile == [name |-> "", email |-> "", currentPassword |-> "", newPassword |-> ""]

\* line 101: the arguments of signUp
NoSignUp == [email |-> "", password |-> "", name |-> "", role |-> ""]
SignUpForms == [email : {"e3"}, password : {"pw1"}, name : {"n1"},
                role : {"student", "teacher"}]
\* the uids createUserWithEmailAndPassword can assign
NewUids == {"u3"}

IdleCall ==
    [op |-> "none", pc |-> "idle", classId |-> 0, userId |-> "", flag |-> FALSE,
     patch |-> [maxStudents |-> 0], draft |-> NoClass,
     pre |-> <<>>, repeats |-> FALSE,
     firstId |-> 0, classData |-> NoClass, nowRead |-> 0, cutoff |-> 0,
     snapshot |-> {}, batch |-> {}, fetchSchool |-> NoSchool, fetchFrom |-> 0,
     fetched |-> {}, result |-> "pending", wrote |-> FALSE, refreshed |-> FALSE,
     failedAt |-> "", outage |-> FALSE, raced |-> FALSE,
     issued |-> <<>>, profile |-> NoProfile, userRead |-> NoUser,
     reauthed |-> FALSE, newSchool |-> NoSchoolDoc,
     preUsers |-> <<>>, preAccounts |-> <<>>, preSchools |-> <<>>,
     schoolId |-> NoSchool, form |-> NoSignUp]

Free(s) == call[s].pc \in {"idle", "done"}

\* a new invocation of operation op in session s
NewCall(s, op) ==
    [IdleCall EXCEPT !.op = op, !.pre = classesDb, !.firstId = nextId,
                     !.preUsers = usersDb, !.preAccounts = accounts,
                     !.preSchools = schoolsDb]

\* history: the awaited service call c.pc has returned (or thrown)
Returned(c) == [c EXCEPT !.issued = Append(@, c.pc)]

Reject(c, error) == [c EXCEPT !.pc = "done", !.result = error]
\* variant: the catch block swallows the error and the operation resolves
Fail_Swallowed(c, outage) ==
    [c EXCEPT !.pc = "done", !.result = "resolved", !.failedAt = c.pc,
              !.outage = outage]

\* the awaited service call threw: the catch block rethrows its error.  outage
\* tells a failure of the service itself from one caused by the data
Fail(c, outage) ==
    [Reject(c, "store error") EXCEPT !.failedAt = c.pc, !.outage = outage]

\* variant: every occurrence, the first included, carries the series marker
SeriesBaseId_AllMarked(index, baseId) == baseId

\* line 214: the series marker of the occurrence at position index (from 1)
SeriesBaseId(index, baseId) == IF index = 1 THEN NULL ELSE baseId

\* variant: every occurrence is written to the one reference classRef
Occurrences_OneRef(classData, dates, baseId, firstId) ==
    {[kind |-> "set", id |-> classData.id,
      data |-> [classData EXCEPT !.datetime = dates[k],
                                 !.baseId = SeriesBaseId(k, baseId)]] :
        k \in DOMAIN dates}

\* lines 208-216: the documents of a recurring class, one per date; the ids
\* recurringClassRef.id are firstId, firstId + 1, ...
Occurrences(classData, dates, baseId, firstId) ==
    {[kind |-> "set", id |-> firstId + k - 1,
      data |-> [classData EXCEPT !.id = firstId + k - 1,
                                 !.datetime = dates[k],
                                 !.baseId = SeriesBaseId(k, baseId)]] :
        k \in DOMAIN dates}

\* line 198: { ...newClass, id: classRef.id }; a draft carries no baseId
ClassDataOf(newClass, classRef) ==
    [id |-> classRef, title |-> newClass.title,
     datetime |-> newClass.datetime,
     maxStudents |-> newClass.maxStudents,
     enrolledStudents |-> newClass.enrolledStudents,
     isRecurring |-> newClass.isRecurring, baseId |-> NULL,
     schoolId |-> newClass.schoolId]

\* lines 195-221: addClass up to its first await
addClass(s, newClass) ==
    /\ Free(s) /\ nCalls < MaxCalls
    /\ LET classRef  == nextId
           classData == ClassDataOf(newClass, classRef)
           startDate == newClass.datetime
           endDate   == horizonOf(startDate)
           dates     == generateRecurringDates(startDate, endDate)
           baseId    == nextId + 1
       IN  IF newClass.isRecurring
           THEN /\ call' = [call EXCEPT ![s] =
                        [NewCall(s, "addClass") EXCEPT
                            !.pc = "write", !.draft = classData,
                            !.batch = Occurrences(classData, dates, baseId, nextId + 2)]]
                /\ nextId' = nextId + 2 + Len(dates)
           ELSE /\ call' = [call EXCEPT ![s] =
                        [NewCall(s, "addClass") EXCEPT
                            !.pc = "write", !.draft = classData,
                            !.batch = {[kind |-> "set", id |-> classRef,
                                        data |-> classData]}]]
                /\ nextId' = nextId + 1
    /\ nCalls' = nCalls + 1
    /\ UNCHANGED <<classesDb, usersDb, now, user, classes, genStart, genBatch, active, acctVars>>

\* lines 230-233, 268-271, 306-309, 347-350: the call issues getDoc(classRef)
StartOnClass(s, op, classId, userId, flag, patch) ==
    /\ Free(s) /\ nCalls < MaxCalls
    /\ call' = [call EXCEPT ![s] =
            [NewCall(s, op) EXCEPT
                !.pc = "getDoc", !.classId = classId, !.userId = userId,
                !.flag = flag, !.patch = patch,
                \* history: the session's previous call was this same call and wrote
                !.repeats = /\ call[s].wrote /\ call[s].op = op
                            /\ call[s].classId = classId /\ call[s].userId = userId
                            /\ call[s].flag = flag /\ call[s].patch = patch]]
    /\ nCalls' = nCalls + 1
    /\ UNCHANGED <<classesDb, usersDb, nextId, now, user, classes, genStart, genBatch, active, acctVars>>

updateClass(s, classId, updatedClass, updateRecurring) ==
    StartOnClass(s, "updateClass", classId, "", updateRecurring, updatedClass)
deleteClass(s, classId, deleteRecurring) ==
    StartOnClass(s, "deleteClass", classId, "", deleteRecurring, IdleCall.patch)
enrollInClass(s, classId, userId, enrollAll) ==
    StartOnClass(s, "enrollInClass", classId, userId, enrollAll, IdleCall.patch)
unenrollFromClass(s, classId, userId, unenrollAll) ==
    StartOnClass(s, "unenrollFromClass", classId, userId, unenrollAll, IdleCall.patch)

\* variant: the series flag alone decides, the target's baseId is not looked at
Cascades_FlagOnly(flag, classData) == flag

\* lines 241, 279, 317, 358: does the operation cascade over the series?
Cascades(flag, classData) == flag /\ classData.baseId # NULL

\* variants: the cutoff policies exchanged
UpdateCutoff_Target(nowv, classData) == classData.datetime
DeleteCutoff_Target(nowv, classData) == classData.datetime
EnrollCutoff_Now(nowv, classData) == nowv
UnenrollCutoff_Now(nowv, classData) == nowv

\* lines 242-246, 280-284: update and delete cut the series at the current time
UpdateCutoff(nowv, classData) == nowv
DeleteCutoff(nowv, classData) == nowv
\* lines 321, 362: enroll and unenroll cut it at the target's own datetime
EnrollCutoff(nowv, classData) == classData.datetime
UnenrollCutoff(nowv, classData) == classData.datetime

\* lines 242, 280: only update and delete read the clock (const now = new Date())
NowRead(op, nowv) == IF op \in {"updateClass", "deleteClass"} THEN nowv ELSE 0

Cutoff(op, nowv, classData) ==
    CASE op = "updateClass"       -> UpdateCutoff(nowv, classData)
      [] op = "deleteClass"       -> DeleteCutoff(nowv, classData)
      [] op = "enrollInClass"     -> EnrollCutoff(nowv, classData)
      [] op = "unenrollFromClass" -> UnenrollCutoff(nowv, classData)

\* variant: enrollment as a read-modify-write of the copy the call read
WriteOf_ReadModifyWrite(c, id) ==
    CASE c.op = "updateClass"       -> [kind |-> "update", id |-> id, data |-> c.patch]
      [] c.op = "deleteClass"       -> [kind |-> "delete", id |-> id, data |-> c.patch]
      [] c.op = "enrollInClass"     ->
            [kind |-> "update", id |-> id,
             data |-> [enrolledStudents |->
                          arrayUnion(c.classData.enrolledStudents, c.userId)]]
      [] c.op = "unenrollFromClass" -> [kind |-> "remove", id |-> id, data |-> c.userId]

\* variant: update writes the whole document, the read copy with the patch
WriteOf_FullDocument(c, id) ==
    CASE c.op = "updateClass"       ->
            [kind |-> "set", id |-> id,
             data |-> [Merge(c.classData, c.patch) EXCEPT !.id = id]]
      [] c.op = "deleteClass"       -> [kind |-> "delete", id |-> id, data |-> c.patch]
      [] c.op = "enrollInClass"     -> [kind |-> "union",  id |-> id, data |-> c.userId]
      [] c.op = "unenrollFromClass" -> [kind |-> "remove", id |-> id, data |-> c.userId]

\* lines 253, 258 / 291, 296 / 328-330, 335-337 / 369-371, 376-378
WriteOf(c, id) ==
    CASE c.op = "updateClass"       -> [kind |-> "update", id |-> id, data |-> c.patch]
      [] c.op = "deleteClass"       -> [kind |-> "delete", id |-> id, data |-> c.patch]
      [] c.op = "enrollInClass"     -> [kind |-> "union",  id |-> id, data |-> c.userId]
      [] c.op = "unenrollFromClass" -> [kind |-> "remove", id |-> id, data |-> c.userId]

\* variant: the existence check is missing
Exists_Unchecked(db, classId) == TRUE

\* lines 235-237: classDoc.exists()
Exists(db, classId) == classId \in Ids(db)
\* line 239: classDoc.data()
Data(db, classId) == IF classId \in Ids(db) THEN db[classId] ELSE NoClass

\* getDoc(classRef) returns (or fails); the operation runs to its next await
getDoc(s) ==
    /\ call[s].pc = "getDoc"
    /\ \E ok \in BOOLEAN :
        LET c == Returned(call[s]) IN
        call' = [call EXCEPT ![s] =
            IF ~ok THEN Fail(c, TRUE)
            ELSE IF ~Exists(classesDb, c.classId) THEN Reject(c, "Class not found")
            ELSE LET classData == Data(classesDb, c.classId) IN
                 IF Cascades(c.flag, classData)
                 THEN [c EXCEPT !.pc = "getDocs", !.classData = classData,
                                !.nowRead = NowRead(c.op, now),
                                !.cutoff = Cutoff(c.op, now, classData)]
                 ELSE [c EXCEPT !.pc = "write", !.classData = classData,
                                !.batch = {WriteOf([c EXCEPT !.classData = classData],
                                                   c.classId)}]]
    /\ UNCHANGED <<classesDb, usersDb, nextId, now, user, classes, nCalls,
                   genStart, genBatch, active, acctVars>>

\* getDocs(classesQuery) returns the series snapshot; the batch is built
getDocs(s) ==
    /\ call[s].pc = "getDocs"
    /\ \E ok \in BOOLEAN :
        LET c == Returned(call[s])
            snapshot == QuerySeries(classesDb, c.classData.baseId, c.cutoff)
        IN  call' = [call EXCEPT ![s] =
                IF ~ok THEN Fail(c, TRUE)
                ELSE [c EXCEPT !.pc = "write", !.snapshot = snapshot,
                               !.batch = {WriteOf(c, i) : i \in snapshot}]]
    /\ UNCHANGED <<classesDb, usersDb, nextId, now, user, classes, nCalls,
                   genStart, genBatch, active, acctVars>>

\* variant: the operation resolves after its write, the query is not re-run
StartFetch_NoRefresh(s, c) ==
    [c EXCEPT !.pc = "done", !.result = "resolved", !.fetchSchool = user[StoreOf[s]].schoolId]

\* lines 388-398: fetchClasses up to its await
StartFetch(s, c) ==
    IF user[StoreOf[s]] = NoUser \/ user[StoreOf[s]].schoolId = NoSchool
    THEN [c EXCEPT !.pc = "done", !.result = "resolved"]
    ELSE [c EXCEPT !.pc = "fetch", !.fetchSchool = user[StoreOf[s]].schoolId,
                   !.fetchFrom = now]

\* history: when updateClass writes, the stored target differs from the copy the
\* call read (line 233) in a field the patch does not contain
Raced(c) ==
    /\ c.op = "updateClass" /\ c.classId \in Ids(classesDb)
    /\ \E f \in DOMAIN c.classData \ DOMAIN c.patch :
            classesDb[c.classId][f] # c.classData[f]

\* batch.commit() / setDoc / updateDoc / deleteDoc returns; then fetchClasses()
commit(s) ==
    /\ call[s].pc = "write"
    /\ \E ok \in BOOLEAN :
        LET c == Returned(call[s]) IN
        IF ok /\ CanCommit(classesDb, c.batch)
        THEN /\ classesDb' = Commit(classesDb, c.batch)
             /\ call' = [call EXCEPT ![s] =
                    StartFetch(s, [c EXCEPT !.wrote = TRUE, !.raced = Raced(c)])]
        ELSE /\ classesDb' = classesDb
             /\ call' = [call EXCEPT ![s] = Fail(c, ~ok)]
    /\ UNCHANGED <<usersDb, nextId, now, user, classes, nCalls, genStart, genBatch, active, acctVars>>

\* line 400: the upcoming-classes query is answered
fetchClasses(s) ==
    /\ call[s].pc = "fetch"
    /\ \E ok \in BOOLEAN :
        LET c == Returned(call[s])
            ids == QuerySchool(classesDb, c.fetchSchool, c.fetchFrom)
        IN  call' = [call EXCEPT ![s] =
                IF ~ok THEN Fail(c, TRUE)
                ELSE [c EXCEPT !.pc = "set",
                               !.fetched = {classesDb[i] : i \in ids}]]
    /\ UNCHANGED <<classesDb, usersDb, nextId, now, user, classes, nCalls,
                   genStart, genBatch, active, acctVars>>

\* lines 401-406: set({ classes }); the operation resolves
setClasses(s) ==
    /\ call[s].pc = "set"
    /\ classes' = [classes EXCEPT ![StoreOf[s]] = Sorted(call[s].fetched)]
    /\ call' = [call EXCEPT ![s] =
            [@ EXCEPT !.pc = "done", !.result = "resolved", !.refreshed = TRUE]]
    /\ UNCHANGED <<classesDb, usersDb, nextId, now, user, nCalls, genStart, genBatch, active, acctVars>>

(************************ profile and school ********************************)
\* the next service call of updateProfile after pc (lines 159-181)
AfterReauth(c) ==
    IF c.profile.email # c.userRead.email THEN "updateEmail"
    ELSE IF c.profile.newPassword # "" THEN "updatePassword" ELSE "updateUser"
AfterEmail(c) == IF c.profile.newPassword # "" THEN "updatePassword" ELSE "updateUser"

\* variant: the check of currentPassword (line 160) is missing
NeedsPassword_Unchecked(user0, p) == FALSE

\* lines 159-162: a change of email or password without currentPassword
NeedsPassword(user0, p) ==
    /\ (p.email # user0.email \/ p.newPassword # "")
    /\ p.currentPassword = ""

\* lines 151-168: updateProfile up to its first await
updateProfile(s, p) ==
    /\ Free(s) /\ nCalls < MaxCalls
    /\ LET c == [NewCall(s, "updateProfile") EXCEPT !.profile = p, !.userRead = user[StoreOf[s]]]
       IN  call' = [call EXCEPT ![s] =
            IF user[StoreOf[s]] = NoUser \/ authUser[StoreOf[s]] = NoUid
            THEN Reject(c, "Utilisateur non connecte")
            ELSE IF NeedsPassword(user[StoreOf[s]], p)
            THEN Reject(c, "Mot de passe actuel requis")
            ELSE IF p.email # user[StoreOf[s]].email \/ p.newPassword # ""
            THEN [c EXCEPT !.pc = "reauth"]
            ELSE [c EXCEPT !.pc = "updateUser"]]
    /\ nCalls' = nCalls + 1
    /\ UNCHANGED <<classesDb, usersDb, nextId, now, user, classes, genStart, genBatch,
                   active, acctVars>>

\* reauthenticateWithCredential: the credential is the account's email (line 165)
\* with the password given
CredentialOk(account, password) == account.password = password

\* line 168: reauthenticateWithCredential returns
reauth(s) ==
    /\ call[s].pc = "reauth"
    /\ \E ok \in BOOLEAN :
        LET c == Returned(call[s]) IN
        call' = [call EXCEPT ![s] =
            IF ok /\ CredentialOk(accounts[authUser[StoreOf[s]]], c.profile.currentPassword)
            THEN [c EXCEPT !.reauthed = TRUE, !.pc = AfterReauth(c)]
            ELSE Fail(c, ~ok)]
    /\ UNCHANGED <<classesDb, usersDb, nextId, now, user, classes, nCalls,
                   genStart, genBatch, active, acctVars>>

\* lines 170-173: updateEmail returns
updateEmail(s) ==
    /\ call[s].pc = "updateEmail"
    /\ \E ok \in BOOLEAN :
        LET c == Returned(call[s]) IN
        IF ok
        THEN /\ accounts' = [accounts EXCEPT ![authUser[StoreOf[s]]].email = c.profile.email]
             /\ call' = [call EXCEPT ![s] = [c EXCEPT !.pc = AfterEmail(c)]]
        ELSE /\ accounts' = accounts
             /\ call' = [call EXCEPT ![s] = Fail(c, TRUE)]
    /\ UNCHANGED <<classesDb, usersDb, nextId, now, user, classes, nCalls,
                   genStart, genBatch, active, listenVars, schoolsDb, school, authUser>>

\* lines 175-177: updatePassword returns
updatePassword(s) ==
    /\ call[s].pc = "updatePassword"
    /\ \E ok \in BOOLEAN :
        LET c == Returned(call[s]) IN
        IF ok
        THEN /\ accounts' = [accounts EXCEPT ![authUser[StoreOf[s]]].password = c.profile.newPassword]
             /\ call' = [call EXCEPT ![s] = [c EXCEPT !.pc = "updateUser"]]
        ELSE /\ accounts' = accounts
             /\ call' = [call EXCEPT ![s] = Fail(c, TRUE)]
    /\ UNCHANGED <<classesDb, usersDb, nextId, now, user, classes, nCalls,
                   genStart, genBatch, active, listenVars, schoolsDb, school, authUser>>

\* lines 156, 172: updates = { name } and, when the email changes, { email }
Updates(c) ==
    IF c.profile.email # c.userRead.email
    THEN [name |-> c.profile.name, email |-> c.profile.email]
    ELSE [name |-> c.profile.name]

\* lines 180-188: updateDoc(userRef, updates) returns; the user is published
updateUser(s) ==
    /\ call[s].pc = "updateUser"
    /\ \E ok \in BOOLEAN :
        LET c == Returned(call[s])
            id == c.userRead.id
        IN  IF ok /\ id \in DOMAIN usersDb
            THEN /\ usersDb' = [usersDb EXCEPT ![id] = Merge(@, Updates(c))]
                 /\ user' = [user EXCEPT ![StoreOf[s]] = Merge(c.userRead, Updates(c))]
                 /\ call' = [call EXCEPT ![s] =
                        [c EXCEPT !.pc = "done", !.result = "resolved", !.wrote = TRUE]]
            ELSE /\ usersDb' = usersDb /\ user' = user
                 /\ call' = [call EXCEPT ![s] = Fail(c, ~ok)]
    /\ UNCHANGED <<classesDb, nextId, now, classes, nCalls, genStart, genBatch,
                   active, acctVars>>

\* variant: the new school lists no teacher
SchoolOf_NoTeacher(schoolRef, schoolData, user0) ==
    [id |-> schoolRef, name |-> schoolData.name, teacherIds |-> <<>>]

\* lines 452-456: { id: schoolRef.id, ...schoolData, teacherIds: [user.id] }
SchoolOf(schoolRef, schoolData, user0) ==
    [id |-> schoolRef, name |-> schoolData.name, teacherIds |-> <<user0.id>>]

\* line 451: doc(collection(db, 'schools')) draws an id no document or pending
\* reference has
FreeSchoolRefs ==
    (SchoolRefs \ DOMAIN schoolsDb) \ {call[t].newSchool.id : t \in Sessions}

\* lines 446-457: createSchool up to its first await
createSchool(s, schoolData) ==
    /\ Free(s) /\ nCalls < MaxCalls
    /\ LET c == [NewCall(s, "createSchool") EXCEPT !.userRead = user[StoreOf[s]]]
       IN  IF user[StoreOf[s]] = NoUser
           THEN call' = [call EXCEPT ![s] = Reject(c, "User not authenticated")]
           ELSE \E schoolRef \in FreeSchoolRefs :
                    call' = [call EXCEPT ![s] =
                        [c EXCEPT !.pc = "setSchool",
                                  !.newSchool = SchoolOf(schoolRef, schoolData, user[StoreOf[s]])]]
    /\ nCalls' = nCalls + 1
    /\ UNCHANGED <<classesDb, usersDb, nextId, now, user, classes, genStart, genBatch,
                   active, acctVars>>

\* line 458: setDoc(schoolRef, school) returns
setSchool(s) ==
    /\ call[s].pc = "setSchool"
    /\ \E ok \in BOOLEAN :
        LET c == Returned(call[s]) IN
        IF ok
        THEN /\ schoolsDb' = [i \in DOMAIN schoolsDb \cup {c.newSchool.id} |->
                                 IF i = c.newSchool.id THEN c.newSchool ELSE schoolsDb[i]]
             /\ call' = [call EXCEPT ![s] = [c EXCEPT !.pc = "setUserSchool"]]
        ELSE /\ schoolsDb' = schoolsDb
             /\ call' = [call EXCEPT ![s] = Fail(c, TRUE)]
    /\ UNCHANGED <<classesDb, usersDb, nextId, now, user, classes, nCalls,
                   genStart, genBatch, active, listenVars, school, authUser, accounts>>

\* lines 459-469: updateDoc(users/user.id, { schoolId }) returns; the school and
\* the user are published
setUserSchool(s) ==
    /\ call[s].pc = "setUserSchool"
    /\ \E ok \in BOOLEAN :
        LET c == Returned(call[s])
            id == c.userRead.id
        IN  IF ok /\ id \in DOMAIN usersDb
            THEN /\ usersDb' = [usersDb EXCEPT ![id].schoolId = c.newSchool.id]
                 /\ user' = [user EXCEPT ![StoreOf[s]] =
                                [c.userRead EXCEPT !.schoolId = c.newSchool.id]]
                 /\ school' = [school EXCEPT ![StoreOf[s]] = c.newSchool]
                 /\ call' = [call EXCEPT ![s] =
                        [c EXCEPT !.pc = "done", !.result = "resolved", !.wrote = TRUE]]
            ELSE /\ usersDb' = usersDb /\ user' = user /\ school' = school
                 /\ call' = [call EXCEPT ![s] = Fail(c, ~ok)]
    /\ UNCHANGED <<classesDb, nextId, now, classes, nCalls, genStart, genBatch,
                   active, listenVars, schoolsDb, authUser, accounts>>

\* lines 476-480: updateUserSchool up to its first await
updateUserSchool(s, userId, schoolId) ==
    /\ Free(s) /\ nCalls < MaxCalls
    /\ call' = [call EXCEPT ![s] =
            [NewCall(s, "updateUserSchool") EXCEPT
                !.pc = "assignUser", !.userId = userId, !.schoolId = schoolId]]
    /\ nCalls' = nCalls + 1
    /\ UNCHANGED <<classesDb, usersDb, nextId, now, user, classes, genStart, genBatch,
                   active, acctVars>>

\* lines 478-480: updateDoc(users/userId, { schoolId }) returns
assignUser(s) ==
    /\ call[s].pc = "assignUser"
    /\ \E ok \in BOOLEAN :
        LET c == Returned(call[s]) IN
        IF ok /\ c.userId \in DOMAIN usersDb
        THEN /\ usersDb' = [usersDb EXCEPT ![c.userId].schoolId = c.schoolId]
             /\ call' = [call EXCEPT ![s] = [c EXCEPT !.pc = "getSchool", !.wrote = TRUE]]
        ELSE /\ usersDb' = usersDb
             /\ call' = [call EXCEPT ![s] = Fail(c, ~ok)]
    /\ UNCHANGED <<classesDb, nextId, now, user, classes, nCalls, genStart, genBatch,
                   active, acctVars>>

\* lines 482-496: getDoc(schools/schoolId) returns; when the school exists and a
\* user is published, the published user gets the schoolId and the school is
\* published.  No write goes to the school document.
getSchool(s) ==
    /\ call[s].pc = "getSchool"
    /\ \E ok \in BOOLEAN :
        LET c == Returned(call[s]) IN
        IF ~ok
        THEN /\ call' = [call EXCEPT ![s] = Fail(c, TRUE)]
             /\ UNCHANGED <<user, school>>
        ELSE /\ call' = [call EXCEPT ![s] = [c EXCEPT !.pc = "done", !.result = "resolved"]]
             /\ IF c.schoolId \in DOMAIN schoolsDb /\ user[StoreOf[s]] # NoUser
                THEN /\ user' = [user EXCEPT ![StoreOf[s]].schoolId = c.schoolId]
                     /\ school' = [school EXCEPT ![StoreOf[s]] = schoolsDb[c.schoolId]]
                ELSE UNCHANGED <<user, school>>
    /\ UNCHANGED <<classesDb, usersDb, nextId, now, classes, nCalls, genStart, genBatch,
                   active, listenVars, schoolsDb, authUser, accounts>>

\* The observer registered by initializeAuthListener (lines 69-99).  pc: "off"
\* before onAuthStateChanged is called, "idle" between callbacks, "getUser" and
\* "getSchool" while the callback awaits its reads, "done" after it returned.
\* queue holds the firebaseUser of the auth-state events not yet delivered.
ListenerOff ==
    [pc |-> "off", queue |-> <<>>, uid |-> NoUid, schoolId |-> NoSchool,
     found |-> FALSE, failed |-> FALSE]

\* the identity service reports a change of auth.currentUser to the observer
CanFire(st) == listener[st].pc = "off" \/ Len(listener[st].queue) < MaxEvents
Fire(st, firebaseUser) ==
    IF listener[st].pc = "off" THEN listener
    ELSE [listener EXCEPT ![st].queue = Append(@, firebaseUser)]

\* lines 69-70: onAuthStateChanged(auth, callback) registers the observer, which
\* is first called with the current auth.currentUser
initializeAuthListener(st) ==
    /\ listener[st].pc = "off"
    /\ listener' = [listener EXCEPT ![st] =
            [ListenerOff EXCEPT !.pc = "idle", !.queue = <<authUser[st]>>]]
    /\ UNCHANGED <<classesDb, usersDb, nextId, now, user, classes, call, nCalls,
                   genStart, genBatch, active, schoolsDb, school, authUser,
                   accounts, isLoading>>

\* lines 70-72 and 95-97: the callback starts on the next event
authStateChanged(st) ==
    /\ listener[st].pc \in {"idle", "done"}
    /\ listener[st].queue # <<>>
    /\ LET firebaseUser == Head(listener[st].queue)
           l == [ListenerOff EXCEPT !.queue = Tail(listener[st].queue),
                                    !.uid = firebaseUser]
       IN  IF firebaseUser # NoUid
           THEN /\ listener' = [listener EXCEPT ![st] = [l EXCEPT !.pc = "getUser"]]
                /\ UNCHANGED <<user, school, isLoading>>
           ELSE /\ user' = [user EXCEPT ![st] = NoUser]
                /\ school' = [school EXCEPT ![st] = NoSchoolDoc]
                /\ isLoading' = [isLoading EXCEPT ![st] = FALSE]
                /\ listener' = [listener EXCEPT ![st] = [l EXCEPT !.pc = "done"]]
    /\ UNCHANGED <<classesDb, usersDb, nextId, now, classes, call, nCalls,
                   genStart, genBatch, active, schoolsDb, authUser, accounts>>

\* lines 72-94: getDoc(users/uid) returns (or throws: the callback has no catch)
listenUser(st) ==
    /\ listener[st].pc = "getUser"
    /\ \E ok \in BOOLEAN :
        LET l == listener[st]
            uid == l.uid
        IN  IF ~ok
            THEN /\ listener' = [listener EXCEPT ![st] =
                        [l EXCEPT !.pc = "done", !.failed = TRUE]]
                 /\ UNCHANGED <<user, isLoading>>
            ELSE IF uid \in DOMAIN usersDb
            THEN /\ user' = [user EXCEPT ![st] =
                        [id |-> uid, email |-> usersDb[uid].email,
                         name |-> usersDb[uid].name, role |-> usersDb[uid].role,
                         schoolId |-> usersDb[uid].schoolId]]
                 /\ isLoading' = [isLoading EXCEPT ![st] = FALSE]
                 /\ listener' = [listener EXCEPT ![st] =
                        IF usersDb[uid].schoolId # NoSchool
                        THEN [l EXCEPT !.pc = "getSchool", !.found = TRUE,
                                       !.schoolId = usersDb[uid].schoolId]
                        ELSE [l EXCEPT !.pc = "done", !.found = TRUE]]
            ELSE /\ listener' = [listener EXCEPT ![st] = [l EXCEPT !.pc = "done"]]
                 /\ UNCHANGED <<user, isLoading>>
    /\ UNCHANGED <<classesDb, usersDb, nextId, now, classes, call, nCalls,
                   genStart, genBatch, active, schoolsDb, school, authUser, accounts>>

\* lines 84-93: getDoc(schools/schoolId) returns (or throws)
listenSchool(st) ==
    /\ listener[st].pc = "getSchool"
    /\ \E ok \in BOOLEAN :
        LET l == listener[st] IN
        /\ listener' = [listener EXCEPT ![st] = [l EXCEPT !.pc = "done", !.failed = ~ok]]
        /\ school' = IF ok /\ l.schoolId \in DOMAIN schoolsDb
                      THEN [school EXCEPT ![st] = schoolsDb[l.schoolId]]
                      ELSE school
    /\ UNCHANGED <<classesDb, usersDb, nextId, now, user, classes, call, nCalls,
                   genStart, genBatch, active, schoolsDb, authUser, accounts,
                   isLoading>>

\* lines 101-103: signUp up to its first await
signUp(s, form) ==
    /\ Free(s) /\ nCalls < MaxCalls
    /\ call' = [call EXCEPT ![s] =
            [NewCall(s, "signUp") EXCEPT !.pc = "createUser", !.form = form]]
    /\ nCalls' = nCalls + 1
    /\ UNCHANGED <<classesDb, usersDb, nextId, now, user, classes,
                   genStart, genBatch, active, acctVars>>

\* line 103: createUserWithEmailAndPassword returns: the account exists and is
\* the signed-in identity, which the observer is told; or it throws (the email
\* is taken, the service is down)
createUser(s) ==
    /\ call[s].pc = "createUser"
    /\ LET c == Returned(call[s])
           st == StoreOf[s]
           taken == \E a \in DOMAIN accounts : accounts[a].email = c.form.email
       IN  \/ /\ ~taken /\ CanFire(st)
              /\ \E uid \in NewUids \ DOMAIN accounts :
                    /\ accounts' = [a \in DOMAIN accounts \cup {uid} |->
                            IF a = uid
                            THEN [email |-> c.form.email, password |-> c.form.password]
                            ELSE accounts[a]]
                    /\ authUser' = [authUser EXCEPT ![st] = uid]
                    /\ listener' = Fire(st, uid)
                    /\ call' = [call EXCEPT ![s] =
                            [c EXCEPT !.pc = "setUserDoc", !.userId = uid]]
           \/ /\ call' = [call EXCEPT ![s] = Fail(c, ~taken)]
              /\ UNCHANGED <<accounts, authUser, listener>>
    /\ UNCHANGED <<classesDb, usersDb, nextId, now, user, classes, nCalls,
                   genStart, genBatch, active, schoolsDb, school, isLoading>>

\* lines 104-115: setDoc(users/uid, { email, name, role }) returns and the user
\* is published (isLoading is not touched); or it throws
setUserDoc(s) ==
    /\ call[s].pc = "setUserDoc"
    /\ \E ok \in BOOLEAN :
        LET c == Returned(call[s])
            uid == c.userId
            userData == [email |-> c.form.email, name |-> c.form.name,
                         role |-> c.form.role, schoolId |-> NoSchool]
        IN  IF ok
            THEN /\ usersDb' = [u \in DOMAIN usersDb \cup {uid} |->
                                   IF u = uid THEN userData ELSE usersDb[u]]
                 /\ user' = [user EXCEPT ![StoreOf[s]] =
                        [id |-> uid, email |-> userData.email, name |-> userData.name,
                         role |-> userData.role, schoolId |-> NoSchool]]
                 /\ call' = [call EXCEPT ![s] =
                        [c EXCEPT !.pc = "done", !.result = "resolved", !.wrote = TRUE]]
            ELSE /\ call' = [call EXCEPT ![s] = Fail(c, TRUE)]
                 /\ UNCHANGED <<usersDb, user>>
    /\ UNCHANGED <<classesDb, nextId, now, classes, nCalls,
                   genStart, genBatch, active, acctVars>>

\* lines 60-64: the page is loaded again: the store is created anew with its
\* initial state and no observer; the signed-in identity is kept by the browser
reload(st) ==
    /\ \A s \in Sessions : StoreOf[s] = st => Free(s)
    /\ listener[st].pc # "off"
    /\ user' = [user EXCEPT ![st] = NoUser]
    /\ school' = [school EXCEPT ![st] = NoSchoolDoc]
    /\ classes' = [classes EXCEPT ![st] = <<>>]
    /\ isLoading' = [isLoading EXCEPT ![st] = TRUE]
    /\ listener' = [listener EXCEPT ![st] = ListenerOff]
    /\ call' = [s \in Sessions |-> IF StoreOf[s] = st THEN IdleCall ELSE call[s]]
    /\ UNCHANGED <<classesDb, usersDb, nextId, now, nCalls, genStart, genBatch,
                   active, schoolsDb, authUser, accounts>>

\* lines 122-134: signIn publishes the stored user
signIn(s, uid) ==
    /\ Free(s) /\ user[StoreOf[s]] = NoUser
    /\ uid \in DOMAIN usersDb
    /\ user' = [user EXCEPT ![StoreOf[s]] =
            [id |-> uid, email |-> usersDb[uid].email, name |-> usersDb[uid].name,
             role |-> usersDb[uid].role, schoolId |-> usersDb[uid].schoolId]]
    /\ authUser' = [authUser EXCEPT ![StoreOf[s]] = uid]
    /\ CanFire(StoreOf[s])
    /\ listener' = Fire(StoreOf[s], uid)
    /\ UNCHANGED <<classesDb, usersDb, nextId, now, classes, call, nCalls,
                   genStart, genBatch, active, isLoading, schoolsDb, school, accounts>>

\* lines 141-144: signOut clears the user (and the school), not the classes
signOut(s) ==
    /\ Free(s) /\ user[StoreOf[s]] # NoUser
    /\ user' = [user EXCEPT ![StoreOf[s]] = NoUser]
    /\ school' = [school EXCEPT ![StoreOf[s]] = NoSchoolDoc]
    /\ authUser' = [authUser EXCEPT ![StoreOf[s]] = NoUid]
    /\ CanFire(StoreOf[s])
    /\ listener' = Fire(StoreOf[s], NoUid)
    /\ UNCHANGED <<classesDb, usersDb, nextId, now, classes, call, nCalls,
                   genStart, genBatch, active, isLoading, schoolsDb, accounts>>

\* the wall clock
Tick ==
    /\ now + TickDays <= MaxNow
    /\ now' = now + TickDays
    /\ UNCHANGED <<classesDb, usersDb, nextId, user, classes, call, nCalls,
                   genStart, genBatch, active, acctVars>>

EmailOf(u) == CASE u = "u1" -> "e1" [] u = "u2" -> "e2" [] u = "t1" -> "e4" [] OTHER -> "e5"
\* students u1 (of school s1) and u2 (no school yet); teacher t1 created school
\* s1 and teacher t2 school s2
SchoolOfUser(u) ==
    CASE u = "u1" -> "s1" [] u = "t1" -> "s1" [] u = "t2" -> "s2" [] OTHER -> NoSchool
InitUsers ==
    [u \in Students \cup Teachers |->
        [email |-> EmailOf(u), name |-> "n1",
         role |-> IF u \in Teachers THEN "teacher" ELSE "student",
         schoolId |-> SchoolOfUser(u)]]
InitSchools ==
    [i \in Schools |->
        [id |-> i, name |-> "studio",
         teacherIds |-> IF i = "s1" THEN <<"t1">> ELSE <<"t2">>]]
InitAccounts ==
    [u \in Students \cup Teachers |-> [email |-> EmailOf(u), password |-> "pw1"]]

\* what the store and the services hold besides the classes, at start
\* line 64 and no observer registered yet
NoListener ==
    /\ isLoading = [s \in Sessions |-> TRUE]
    /\ listener = [s \in Sessions |-> ListenerOff]

InitRest ==
    /\ NoListener
    /\ usersDb = InitUsers
    /\ schoolsDb = InitSchools
    /\ accounts = InitAccounts
    /\ user = [s \in Sessions |-> NoUser]
    /\ school = [s \in Sessions |-> NoSchoolDoc]
    /\ authUser = [s \in Sessions |-> NoUid]
    /\ classes = [s \in Sessions |-> <<>>]
    /\ call = [s \in Sessions |-> IdleCall]
    /\ nCalls = 0

\* The collection outlives the store: it starts empty, or as an earlier run left
\* it after addClass of a weekly class of school s1 (ids: 1 the unused classRef,
\* 2 the baseId, 3.. the occurrences) and enrollInClass(4, "u1", true).
SeedDraft ==
    [title |-> "pole", datetime |-> 0, maxStudents |-> 1,
     enrolledStudents |-> <<>>, isRecurring |-> TRUE, schoolId |-> "s1"]
SeedDates == generateRecurringDates(0, horizonOf(0))
SeedAdded ==
    Commit(<<>>, Occurrences(ClassDataOf(SeedDraft, 1), SeedDates, 2, 3))
SeedDb ==
    Commit(SeedAdded,
           {[kind |-> "union", id |-> i, data |-> "u1"] :
               i \in QuerySeries(SeedAdded, 2, EnrollCutoff(0, SeedAdded[4]))})

Init ==
    /\ \/ classesDb = <<>> /\ nextId = 1
       \/ classesDb = SeedDb /\ nextId = 3 + Len(SeedDates)
    /\ InitRest
    /\ now = 0
    /\ active = {"a"}
    /\ genStart = 0
    /\ genBatch = {}

\* the ids a caller can name: every stored class, and one id without a document
ClassIds == Ids(classesDb) \cup {nextId}

Next ==
    \/ \E s \in active, d \in Drafts : addClass(s, d)
    \/ \E s \in active, i \in ClassIds, p \in Patches, f \in BOOLEAN :
            updateClass(s, i, p, f)
    \/ \E s \in active, i \in ClassIds, f \in BOOLEAN : deleteClass(s, i, f)
    \/ \E s \in active, i \in ClassIds, u \in Students, f \in BOOLEAN :
            enrollInClass(s, i, u, f)
    \/ \E s \in active, i \in ClassIds, u \in Students, f \in BOOLEAN :
            unenrollFromClass(s, i, u, f)
    \/ \E s \in active : getDoc(s)
    \/ \E s \in active : getDocs(s)
    \/ \E s \in active : commit(s)
    \/ \E s \in active : fetchClasses(s)
    \/ \E s \in active : setClasses(s)
    \/ \E s \in active : signIn(s, SessionUser[s])
    \/ \E s \in active : signOut(s)
    \/ Tick

Spec == Init /\ [][Next]_vars

SignedIn(uid) ==
    [id |-> uid, email |-> InitUsers[uid].email, name |-> InitUsers[uid].name,
     role |-> InitUsers[uid].role, schoolId |-> InitUsers[uid].schoolId]

\* Two students of school s1 in front of their class cards: the lists are loaded,
\* and every enrollment is the single-occurrence one of a card's button.
isEnrolled(user0, classData) == user0.id \in Range(classData.enrolledStudents)
availableSpots(classData) == classData.maxStudents - Len(classData.enrolledStudents)
\* ClassCard.tsx line 271: disabled={(!isEnrolled && isFull) || isLoading}
ButtonEnabled(user0, classData) ==
    ~(~isEnrolled(user0, classData) /\ availableSpots(classData) <= 0)

\* ClassCard.tsx lines 29-38: handleEnrollment(false) on the card at position k
\* of the published list
handleEnrollment(s, k) ==
    /\ k \in DOMAIN classes[StoreOf[s]]
    /\ user[StoreOf[s]] # NoUser
    /\ ButtonEnabled(user[StoreOf[s]], classes[StoreOf[s]][k])
    /\ IF isEnrolled(user[StoreOf[s]], classes[StoreOf[s]][k])
       THEN unenrollFromClass(s, classes[StoreOf[s]][k].id, user[StoreOf[s]].id, FALSE)
       ELSE enrollInClass(s, classes[StoreOf[s]][k].id, user[StoreOf[s]].id, FALSE)

CardUsers == [InitUsers EXCEPT !["u2"].schoolId = "s1"]
InitCard ==
    /\ classesDb = SeedDb /\ nextId = 3 + Len(SeedDates)
    /\ usersDb = CardUsers
    /\ schoolsDb = InitSchools
    /\ accounts = InitAccounts
    /\ user = [s \in Sessions |->
                [SignedIn(SessionUser[s]) EXCEPT !.schoolId = CardUsers[SessionUser[s]].schoolId]]
    /\ school = [s \in Sessions |-> NoSchoolDoc]
    /\ authUser = [s \in Sessions |-> SessionUser[s]]
    /\ classes = [s \in Sessions |->
                    Sorted({SeedDb[i] : i \in QuerySchool(SeedDb, "s1", 0)})]
    /\ call = [s \in Sessions |-> IdleCall]
    /\ nCalls = 0
    /\ now = 0
    /\ active = {"a", "b"}
    /\ genStart = 0
    /\ genBatch = {}
    /\ NoListener

NextCard ==
    \/ \E s \in active : \E k \in DOMAIN classes[StoreOf[s]] : handleEnrollment(s, k)
    \/ \E s \in active : getDoc(s)
    \/ \E s \in active : commit(s)
    \/ \E s \in active : fetchClasses(s)
    \/ \E s \in active : setClasses(s)

SpecCard == InitCard /\ [][NextCard]_vars

\* One browser tab with two operations in flight: student u1 acts on two cards
\* before the first operation has resolved (each card has its own isLoading,
\* ClassCard.tsx line 18), so the two calls share store.user and store.classes.
InitOverlap ==
    /\ classesDb = SeedDb /\ nextId = 3 + Len(SeedDates)
    /\ usersDb = InitUsers
    /\ schoolsDb = InitSchools
    /\ accounts = InitAccounts
    /\ user = [s \in Sessions |-> SignedIn(SessionUser[s])]
    /\ school = [s \in Sessions |-> NoSchoolDoc]
    /\ authUser = [s \in Sessions |-> SessionUser[s]]
    /\ classes = [s \in Sessions |->
                    IF s = "a" THEN Sorted({SeedDb[i] : i \in QuerySchool(SeedDb, "s1", 0)})
                    ELSE <<>>]
    /\ call = [s \in Sessions |-> IdleCall]
    /\ nCalls = 0
    /\ now = 0
    /\ active = {"a", "a2"}
    /\ genStart = 0
    /\ genBatch = {}
    /\ NoListener

NextOverlap ==
    \/ \E s \in active, i \in ClassIds, f \in BOOLEAN :
            enrollInClass(s, i, SessionUser[s], f)
    \/ \E s \in active, i \in ClassIds, f \in BOOLEAN :
            unenrollFromClass(s, i, SessionUser[s], f)
    \/ \E s \in active, i \in ClassIds, f \in BOOLEAN : deleteClass(s, i, f)
    \/ \E s \in active : getDoc(s)
    \/ \E s \in active : getDocs(s)
    \/ \E s \in active : commit(s)
    \/ \E s \in active : fetchClasses(s)
    \/ \E s \in active : setClasses(s)

SpecOverlap == InitOverlap /\ [][NextOverlap]_vars

\* The whole store of one session: the class operations on a collection that
\* starts empty, and the profile and school operations.
\* One page over its lifetime: it is loaded, the observer is registered, people
\* sign up, in and out, and the page is loaded again.  The steps the runtime
\* takes by itself (a callback on a waiting event, an awaited call returning)
\* are eventually taken; nobody has to sign up, sign in or out, or reload.
InitAuth ==
    /\ classesDb = <<>> /\ nextId = 1
    /\ InitRest
    /\ now = 0
    /\ active = {"a"}
    /\ genStart = 0
    /\ genBatch = {}

NextAuth ==
    \/ initializeAuthListener("a")
    \/ authStateChanged("a")
    \/ listenUser("a")
    \/ listenSchool("a")
    \/ \E form \in SignUpForms : signUp("a", form)
    \/ createUser("a")
    \/ setUserDoc("a")
    \/ \E uid \in {"u1", "u2"} : signIn("a", uid)
    \/ signOut("a")
    \/ reload("a")

SpecAuth ==
    /\ InitAuth /\ [][NextAuth]_vars
    /\ WF_vars(initializeAuthListener("a"))
    /\ WF_vars(authStateChanged("a"))
    /\ WF_vars(listenUser("a"))
    /\ WF_vars(listenSchool("a"))
    /\ WF_vars(createUser("a"))
    /\ WF_vars(setUserDoc("a"))

InitStore ==
    /\ classesDb = <<>> /\ nextId = 1
    /\ InitRest
    /\ now = 0
    /\ active = {"a"}
    /\ genStart = 0
    /\ genBatch = {}

NextStore ==
    \/ Next
    \/ \E s \in active, p \in Profiles : updateProfile(s, p)
    \/ \E s \in active : reauth(s)
    \/ \E s \in active : updateEmail(s)
    \/ \E s \in active : updatePassword(s)
    \/ \E s \in active : updateUser(s)
    \/ \E s \in active, d \in SchoolForms : createSchool(s, d)
    \/ \E s \in active : setSchool(s)
    \/ \E s \in active : setUserSchool(s)
    \/ \E s \in active : \E u \in {SessionUser[s], "t1"}, i \in DOMAIN schoolsDb :
            updateUserSchool(s, u, i)
    \/ \E s \in active : assignUser(s)
    \/ \E s \in active : getSchool(s)

SpecStore == InitStore /\ [][NextStore]_vars

\* Two browsers on the same collection: both sessions are open and signed in,
\* each enrolls its own user (ClassCard.tsx handleEnrollment passes user.id),
\* and their store operations interleave at every await.
InitConc ==
    /\ classesDb = SeedDb /\ nextId = 3 + Len(SeedDates)
    /\ usersDb = InitUsers
    /\ schoolsDb = InitSchools
    /\ accounts = InitAccounts
    /\ user = [s \in Sessions |-> SignedIn(SessionUser[s])]
    /\ school = [s \in Sessions |-> NoSchoolDoc]
    /\ authUser = [s \in Sessions |-> SessionUser[s]]
    /\ classes = [s \in Sessions |-> <<>>]
    /\ call = [s \in Sessions |-> IdleCall]
    /\ nCalls = 0
    /\ now = 0
    /\ active = {"a", "b"}
    /\ genStart = 0
    /\ genBatch = {}
    /\ NoListener

NextConc ==
    \/ \E s \in active, i \in ClassIds, p \in Patches, f \in BOOLEAN :
            updateClass(s, i, p, f)
    \/ \E s \in active, i \in ClassIds, f \in BOOLEAN : deleteClass(s, i, f)
    \/ \E s \in active, i \in ClassIds, f \in BOOLEAN :
            enrollInClass(s, i, SessionUser[s], f)
    \/ \E s \in active, i \in ClassIds, f \in BOOLEAN :
            unenrollFromClass(s, i, SessionUser[s], f)
    \/ \E s \in active : getDoc(s)
    \/ \E s \in active : getDocs(s)
    \/ \E s \in active : commit(s)
    \/ \E s \in active : fetchClasses(s)
    \/ \E s \in active : setClasses(s)
    \/ Tick

SpecConc == InitConc /\ [][NextConc]_vars

(********************** addClass on the civil calendar **********************)
\* lines 200-216 with the horizon addYears(startDate, 1): the batch of a weekly
\* class starting on genStart
addClassBatch ==
    /\ genBatch = {}
    /\ LET startDate == genStart
           endDate   == addYears(startDate)
           dates     == generateRecurringDates(startDate, endDate)
       IN  genBatch' = Occurrences(ClassDataOf([SeedDraft EXCEPT !.datetime = startDate], 1),
                                   dates, 2, 3)
    /\ UNCHANGED <<classesDb, usersDb, nextId, now, user, classes, call, nCalls,
                   genStart, active, acctVars>>

InitGen ==
    /\ classesDb = <<>>
    /\ InitRest
    /\ nextId = 1
    /\ now = 0
    /\ active = {"a"}
    /\ genStart \in 0 .. (CycleDays - 1)
    /\ genBatch = {}

NextGen == addClassBatch

SpecGen == InitGen /\ [][NextGen]_vars

(***************************************************************************)
(*                              Properties                                 *)
(* call[s].pre is the collection when the call started.  In Spec a single  *)
(* session runs one call at a time, so from the commit of a call to the     *)
(* start of the next one classesDb is what that call made of call[s].pre.   *)
(***************************************************************************)
Added(c) == Ids(classesDb) \ Ids(c.pre)
Kept(c) == \A i \in Ids(c.pre) : i \in Ids(classesDb) /\ classesDb[i] = c.pre[i]
RecurringAdd(c) == c.op = "addClass" /\ c.draft.isRecurring /\ c.wrote
ClassOps == {"updateClass", "deleteClass", "enrollInClass", "unenrollFromClass"}

\* C1: a recurring addClass writes the occurrence dated at the start instant with
\* baseId = null and all other occurrences with one common non-null baseId, which
\* was not issued before this call (so differs from every earlier series' marker)
\* and is not the id of any class document.
C1_SeriesIdentity ==
    \A s \in Sessions :
        LET c == call[s] IN
        RecurringAdd(c) =>
            \E first \in Added(c) :
                /\ classesDb[first].datetime = c.draft.datetime
                /\ classesDb[first].baseId = NULL
                /\ \A i \in Added(c) \ {first} :
                        classesDb[i].datetime # c.draft.datetime
                /\ \E b \in c.firstId .. (nextId - 1) :
                        /\ b # NULL
                        /\ \A i \in Added(c) \ {first} : classesDb[i].baseId = b
                        /\ b \notin Ids(classesDb)
                        /\ \A i \in Ids(c.pre) : c.pre[i].baseId # b

\* C1 witness: a second series has been written next to an earlier one
C1_Witness ==
    \E s \in Sessions :
        /\ RecurringAdd(call[s])
        /\ Cardinality(Added(call[s])) > 1
        /\ \E i \in Ids(call[s].pre) : call[s].pre[i].baseId # NULL

\* C2: the occurrences of a weekly class starting at S are dated exactly S,
\* S + 7, S + 14, ... below the horizon H one year after S: one document per
\* date, the first at S, all in [S, H), the next date after the last not below
\* H, and at least 52 of them.
C2_WeeklyDates ==
    genBatch # {} =>
        LET S == genStart
            H == addYears(S)
            written == {w.data.datetime : w \in genBatch}
            n == Cardinality(written)
        IN  /\ H - S \in {DaysInYear, DaysInLeapYear}
            /\ \A w \in genBatch : w.kind = "set" /\ w.id = w.data.id
            /\ Cardinality(genBatch) = n
            /\ Cardinality({w.id : w \in genBatch}) = n
            /\ written = {S + WeekDays * k : k \in 0 .. (n - 1)}
            /\ \A d \in written : S <= d /\ d < H
            /\ S + WeekDays * n >= H
            /\ n >= 52

\* C2 witness: a series starting on 29 February of the leap year has been built
C2_Witness == genBatch # {} /\ genStart = LastOfFeb + 1

\* C3: a non-recurring addClass adds exactly one document and changes no other;
\* a recurring addClass adds its N occurrences all together or not at all, each
\* under its own id and equal to the draft except in id, datetime and baseId.
SameAsDraft(d, draft) ==
    /\ d.title = draft.title
    /\ d.maxStudents = draft.maxStudents
    /\ d.enrolledStudents = draft.enrolledStudents
    /\ d.isRecurring = draft.isRecurring
    /\ d.schoolId = draft.schoolId
C3_AddClassWrites ==
    \A s \in Sessions :
        LET c == call[s]
            N == Len(generateRecurringDates(c.draft.datetime,
                                            horizonOf(c.draft.datetime)))
        IN  c.op = "addClass" =>
            /\ Kept(c)
            /\ ~c.wrote => Added(c) = {}
            /\ (c.wrote /\ ~c.draft.isRecurring) =>
                    /\ Cardinality(Added(c)) = 1
                    /\ \A i \in Added(c) : classesDb[i] = [c.draft EXCEPT !.id = i]
            /\ (c.wrote /\ c.draft.isRecurring) =>
                    /\ Cardinality(Added(c)) = N
                    /\ \A i \in Added(c) :
                            /\ classesDb[i].id = i
                            /\ SameAsDraft(classesDb[i], c.draft)

\* C3 witness: a recurring addClass has committed into a non-empty collection
C3_Witness ==
    \E s \in Sessions :
        /\ RecurringAdd(call[s])
        /\ Cardinality(Added(call[s])) > 1
        /\ call[s].pre # <<>>

(* the documents of c.pre that share the target's series marker and are dated
   at or after `from` *)
SeriesFrom(c, from) ==
    {i \in Ids(c.pre) : /\ c.pre[i].baseId = c.pre[c.classId].baseId
                         /\ c.pre[i].datetime >= from}
OnSeries(c, op) ==
    /\ c.op = op /\ c.flag /\ c.wrote
    /\ c.classId \in Ids(c.pre) /\ c.pre[c.classId].baseId # NULL
\* the collection is c.pre with change(i) made to the documents of T, and no other
ChangedExactly(c, T, change(_)) ==
    /\ Ids(classesDb) = Ids(c.pre)
    /\ \A i \in Ids(c.pre) :
            classesDb[i] = IF i \in T THEN change(c.pre[i]) ELSE c.pre[i]
RemovedExactly(c, T) ==
    /\ Ids(classesDb) = Ids(c.pre) \ T
    /\ \A i \in Ids(classesDb) : classesDb[i] = c.pre[i]
Patched(c, d) ==
    [f \in DOMAIN d \cup DOMAIN c.patch |->
        IF f \in DOMAIN c.patch THEN c.patch[f] ELSE d[f]]
Members(d) == Range(d.enrolledStudents)
WithMember(c, d) ==
    IF c.userId \in Members(d) THEN d
    ELSE [d EXCEPT !.enrolledStudents = Append(@, c.userId)]
WithoutMember(c, d) ==
    [d EXCEPT !.enrolledStudents = SelectSeq(@, LAMBDA e : e # c.userId)]

\* C4: updateClass(id, patch, true) on a class with a non-null baseId patches
\* exactly the classes with the same baseId and datetime >= the time read from the
\* clock during the call, and no other document.
C4_UpdateSeriesFromNow ==
    \A s \in Sessions :
        LET c == call[s] IN
        OnSeries(c, "updateClass") =>
            ChangedExactly(c, SeriesFrom(c, c.nowRead), LAMBDA d : Patched(c, d))

\* C4 witness: an occurrence of the series later than the target was already past
\* and kept its fields, which the patch would have changed
C4_Witness ==
    \E s \in Sessions :
        LET c == call[s] IN
        /\ OnSeries(c, "updateClass")
        /\ \E x \in Ids(c.pre) :
                /\ c.pre[x].baseId = c.pre[c.classId].baseId
                /\ c.pre[c.classId].datetime < c.pre[x].datetime
                /\ c.pre[x].datetime < c.nowRead
                /\ Patched(c, c.pre[x]) # c.pre[x]
                /\ classesDb[x] = c.pre[x]

\* the documents a deleteClass call is aimed at
DeleteTargets(c) ==
    IF c.flag /\ c.pre[c.classId].baseId # NULL
    THEN SeriesFrom(c, c.nowRead) ELSE {c.classId}
DeleteWrote(c) == c.op = "deleteClass" /\ c.wrote /\ c.classId \in Ids(c.pre)
Published(s) == {classes[s][k].id : k \in DOMAIN classes[s]}

\* C5: deleteClass removes exactly its targets (the series from the time read
\* from the clock, or the single target), and once it has resolved none of them
\* is in the published list.
C5_DeleteThenUnlisted ==
    \A s \in Sessions :
        LET c == call[s] IN
        DeleteWrote(c) =>
            /\ RemovedExactly(c, DeleteTargets(c))
            /\ (c.pc = "done" /\ c.result = "resolved") =>
                    Published(s) \cap DeleteTargets(c) = {}

\* C5, the part the store keeps: deleteClass removes exactly its targets, and
\* when fetchClasses re-ran the query before the call resolved (the session's
\* user had a schoolId) none of them is in the published list.
C5_DeleteExactly ==
    \A s \in Sessions :
        LET c == call[s] IN
        DeleteWrote(c) =>
            /\ RemovedExactly(c, DeleteTargets(c))
            /\ (c.pc = "done" /\ c.result = "resolved" /\ c.refreshed) =>
                    Published(s) \cap DeleteTargets(c) = {}

\* C6: with the series flag set on a target whose baseId is null, each of the
\* four operations changes or removes the target alone.
C6_NullBaseIdIsSingle ==
    \A s \in Sessions :
        LET c == call[s] IN
        (/\ c.op \in ClassOps /\ c.flag /\ c.wrote
         /\ c.classId \in Ids(c.pre) /\ c.pre[c.classId].baseId = NULL) =>
            CASE c.op = "updateClass" ->
                    ChangedExactly(c, {c.classId}, LAMBDA d : Patched(c, d))
              [] c.op = "deleteClass" -> RemovedExactly(c, {c.classId})
              [] c.op = "enrollInClass" ->
                    ChangedExactly(c, {c.classId}, LAMBDA d : WithMember(c, d))
              [] c.op = "unenrollFromClass" ->
                    ChangedExactly(c, {c.classId}, LAMBDA d : WithoutMember(c, d))

\* C6 witness: the flagged update hit the first occurrence of a series whose
\* later occurrences are stored, and changed it
C6_Witness ==
    \E s \in Sessions :
        LET c == call[s] IN
        /\ c.op = "updateClass" /\ c.flag /\ c.wrote
        /\ c.classId \in Ids(c.pre)
        /\ c.pre[c.classId].baseId = NULL /\ c.pre[c.classId].isRecurring
        /\ \E x \in Ids(c.pre) : c.pre[x].baseId # NULL
        /\ classesDb[c.classId] # c.pre[c.classId]

\* C7: enrollInClass(classId, userId, true) on a class with a non-null baseId
\* adds userId to exactly the classes with the same baseId and datetime >= the
\* target's own datetime, and changes no other class.
C7_EnrollSeriesFromTarget ==
    \A s \in Sessions :
        LET c == call[s] IN
        OnSeries(c, "enrollInClass") =>
            ChangedExactly(c, SeriesFrom(c, c.pre[c.classId].datetime),
                           LAMBDA d : WithMember(c, d))

\* C7 witness: the target and a later occurrence gained the user, an earlier
\* occurrence of the series (still upcoming) did not
C7_Witness ==
    \E s \in Sessions :
        LET c == call[s] IN
        /\ OnSeries(c, "enrollInClass")
        /\ c.userId \notin Members(c.pre[c.classId])
        /\ c.userId \in Members(classesDb[c.classId])
        /\ \E x \in Ids(c.pre) :
                /\ c.pre[x].baseId = c.pre[c.classId].baseId
                /\ c.pre[x].datetime < c.pre[c.classId].datetime
                /\ c.pre[x].datetime >= now
                /\ c.userId \notin Members(classesDb[x])

\* C8: unenrollFromClass(classId, userId, true) on a class with a non-null baseId
\* removes userId from exactly the classes with the same baseId and datetime >=
\* the target's own datetime; with the flag false, from the target only.
C8_UnenrollSeriesFromTarget ==
    \A s \in Sessions :
        LET c == call[s] IN
        /\ OnSeries(c, "unenrollFromClass") =>
                ChangedExactly(c, SeriesFrom(c, c.pre[c.classId].datetime),
                               LAMBDA d : WithoutMember(c, d))
        /\ (/\ c.op = "unenrollFromClass" /\ ~c.flag /\ c.wrote
            /\ c.classId \in Ids(c.pre)) =>
                ChangedExactly(c, {c.classId}, LAMBDA d : WithoutMember(c, d))

\* C8 witness: the user left the target, and stays enrolled in an earlier
\* occurrence of the series that is still upcoming
C8_Witness ==
    \E s \in Sessions :
        LET c == call[s] IN
        /\ OnSeries(c, "unenrollFromClass")
        /\ c.userId \in Members(c.pre[c.classId])
        /\ c.userId \notin Members(classesDb[c.classId])
        /\ \E x \in Ids(c.pre) :
                /\ c.pre[x].baseId = c.pre[c.classId].baseId
                /\ c.pre[x].datetime < c.pre[c.classId].datetime
                /\ c.pre[x].datetime >= now
                /\ c.userId \in Members(classesDb[x])

\* C9: enrolling a member and unenrolling a non-member leave enrolledStudents as
\* it was, and an enroll or unenroll that repeats the session's previous call
\* leaves every class document as that call left it (single and series path).
C9_EnrollmentIdempotent ==
    \A s \in Sessions :
        LET c == call[s] IN
        (c.op \in {"enrollInClass", "unenrollFromClass"} /\ c.wrote) =>
            /\ Ids(classesDb) = Ids(c.pre)
            /\ \A i \in Ids(c.pre) :
                    ((c.op = "enrollInClass") = (c.userId \in Members(c.pre[i]))) =>
                        classesDb[i].enrolledStudents = c.pre[i].enrolledStudents
            /\ c.repeats => classesDb = c.pre

\* C9 witness: a series enroll that added the user has been repeated
C9_Witness ==
    \E s \in Sessions :
        LET c == call[s] IN
        /\ OnSeries(c, "enrollInClass") /\ c.repeats /\ c.pc = "done"
        /\ c.userId \in Members(classesDb[c.classId])
        /\ Len(classesDb[c.classId].enrolledStudents) > 1

\* C10: a call of the four class operations on an id without a document fails
\* with 'Class not found' (unless the read itself fails), issues no query and no
\* write, changes no document and does not refresh the published list.
NotFoundCall(c) == c.op \in ClassOps /\ c.classId \notin Ids(c.pre)
C10_NotFoundState ==
    \A s \in Sessions :
        LET c == call[s] IN
        NotFoundCall(c) =>
            /\ c.pc \in {"getDoc", "done"}
            /\ c.pc = "done" => c.result \in {"Class not found", "store error"}
            /\ ~c.wrote /\ ~c.refreshed
            /\ classesDb = c.pre
C10_NotFoundStep ==
    \A s \in Sessions :
        (NotFoundCall(call[s]) /\ call[s].pc # "done" /\ call'[s].op = call[s].op) =>
            /\ classes'[s] = classes[s]
            /\ classesDb' = classesDb
            /\ (call'[s].pc = "done" /\ call'[s].result # "Class not found") =>
                    call'[s].result = "store error"
C10_NotFound == [][C10_NotFoundStep]_vars /\ []C10_NotFoundState

\* C10 witness: each operation's turn; here a series delete of a missing id was
\* rejected while the session publishes a list
C10_Witness ==
    \E s \in Sessions :
        LET c == call[s] IN
        /\ NotFoundCall(c) /\ c.op = "deleteClass" /\ c.flag
        /\ c.pc = "done" /\ c.result = "Class not found"
        /\ classes[s] # <<>> /\ classesDb # <<>>

\* ClassCard.tsx lines 25, 271: the caller's check, on the target only
isFull(d) == Len(d.enrolledStudents) >= d.maxStudents
CheckedSeriesEnroll(c) ==
    /\ OnSeries(c, "enrollInClass")
    /\ ~isFull(c.pre[c.classId])
    /\ c.userId \notin Members(c.pre[c.classId])

\* C12: a series-wide enrollInClass whose caller found a free spot on the target
\* puts the user into every occurrence of the resolved set whatever its
\* maxStudents, so an occurrence that was full ends above its capacity:
\* enrolledStudents.size <= maxStudents is not kept by the series path.
C12_SeriesEnrollIgnoresCapacity ==
    \A s \in Sessions :
        LET c == call[s] IN
        CheckedSeriesEnroll(c) =>
            \A i \in SeriesFrom(c, c.pre[c.classId].datetime) :
                /\ c.userId \in Members(classesDb[i])
                /\ (isFull(c.pre[i]) /\ c.userId \notin Members(c.pre[i]))
                        => Len(classesDb[i].enrolledStudents) > classesDb[i].maxStudents

\* the reachable state of the claim: another occurrence is over its capacity
C12_Witness ==
    \E s \in Sessions :
        LET c == call[s] IN
        /\ CheckedSeriesEnroll(c)
        /\ \E i \in SeriesFrom(c, c.pre[c.classId].datetime) \ {c.classId} :
                /\ Len(c.pre[i].enrolledStudents) <= c.pre[i].maxStudents
                /\ Len(classesDb[i].enrolledStudents) > classesDb[i].maxStudents

\* C13: enrollInClass never rejects for capacity: on a class that exists, and
\* unless a store call itself fails, the call resolves with the user added to the
\* target, whatever the relation of enrolledStudents.size and maxStudents; its
\* only rejections are 'Class not found' and the store's own error.
C13_EnrollNeverRejectsForCapacity ==
    \A s \in Sessions :
        LET c == call[s] IN
        (c.op = "enrollInClass" /\ c.pc = "done") =>
            /\ c.result \in {"resolved", "Class not found", "store error"}
            /\ c.result = "Class not found" => c.classId \notin Ids(c.pre)
            /\ c.result = "store error" => c.outage
            /\ (c.classId \in Ids(c.pre) /\ ~c.outage) =>
                    /\ c.result = "resolved" /\ c.wrote
                    /\ c.userId \in Members(classesDb[c.classId])

\* a full class took one more student
C13_Witness ==
    \E s \in Sessions :
        LET c == call[s] IN
        /\ c.op = "enrollInClass" /\ c.pc = "done" /\ c.result = "resolved"
        /\ c.classId \in Ids(c.pre) /\ ~c.flag
        /\ isFull(c.pre[c.classId])
        /\ c.userId \notin Members(c.pre[c.classId])
        /\ c.userId \in Members(classesDb[c.classId])

Mutating == ClassOps \cup {"addClass"}
ResolvedMutation(c) == c.op \in Mutating /\ c.pc = "done" /\ c.result = "resolved"
\* the list the upcoming-classes query of call c gives on the collection
Upcoming(c) ==
    Sorted({classesDb[i] : i \in QuerySchool(classesDb, c.fetchSchool, c.fetchFrom)})

\* C16 as stated: every mutating operation that resolved has re-run the
\* upcoming-classes query after its write and published its result.
C16_AlwaysRefreshed ==
    \A s \in Sessions :
        LET c == call[s] IN
        ResolvedMutation(c) => (c.wrote /\ c.refreshed)

\* C16 (amended): a mutating operation that resolved has written, and when the
\* store's user had a schoolId as fetchClasses started, the query was re-run
\* after the write and the published list is its result: the stored classes of
\* that school dated at or after the time read for the query.
C16_RefreshedWithSchool ==
    \A s \in Sessions :
        LET c == call[s] IN
        ResolvedMutation(c) =>
            /\ c.wrote
            /\ c.fetchSchool # NoSchool =>
                    /\ c.refreshed
                    /\ classes[s] = Upcoming(c)
            /\ c.fetchSchool = NoSchool => ~c.refreshed

\* the refreshed list shows the enrollment the call has just written
C16_Witness ==
    \E s \in Sessions :
        LET c == call[s] IN
        /\ ResolvedMutation(c) /\ c.op = "enrollInClass" /\ c.refreshed
        /\ c.userId \notin Members(c.pre[c.classId])
        /\ \E k \in DOMAIN classes[s] :
                /\ classes[s][k].id = c.classId
                /\ c.userId \in Members(classes[s][k])

(***************************************************************************)
(* The whole store (SpecStore).  call[s].issued lists the service calls of  *)
(* the invocation that have returned; call[s].pc is the one awaited.        *)
(***************************************************************************)
ServiceCalls ==
    {"getDoc", "getDocs", "write", "fetch", "reauth", "updateEmail",
     "updatePassword", "updateUser", "setSchool", "setUserSchool",
     "assignUser", "getSchool"}
Stores == <<classesDb, usersDb, schoolsDb, accounts>>

C17_Step ==
    \A s \in Sessions :
        LET c == call[s]
            d == call'[s]
        IN  (d # c) =>
                IF Free(s)
                THEN d.issued = <<>> /\ d.failedAt = ""
                ELSE /\ d.op = c.op
                     /\ d.issued = IF c.pc \in ServiceCalls
                                   THEN Append(c.issued, c.pc) ELSE c.issued
                     /\ d.pc \notin Range(d.issued)
                     /\ d.failedAt # "" =>
                            /\ d.failedAt = c.pc /\ c.pc \in ServiceCalls
                            /\ d.pc = "done" /\ d.result = "store error"
                            /\ Stores' = Stores
                            /\ user' = user /\ classes' = classes /\ school' = school
C17_State ==
    \A s \in Sessions :
        LET c == call[s] IN
        /\ Cardinality(Range(c.issued)) = Len(c.issued)
        /\ c.failedAt # "" =>
                /\ c.pc = "done" /\ c.result = "store error"
                /\ c.issued # <<>> /\ c.issued[Len(c.issued)] = c.failedAt

\* C17: in every store operation a failed service call ends the invocation: the
\* operation rejects with the call's error, the failed call is the last one of
\* the invocation, nothing is written or published in that step, and no service
\* call is issued twice in one invocation.
C17_NoSwallowNoRetry == [][C17_Step]_vars /\ []C17_State

\* updateProfile rejected by a failed updatePassword after the email was changed
C17_Witness ==
    \E s \in Sessions :
        LET c == call[s] IN
        /\ c.op = "updateProfile" /\ c.pc = "done" /\ c.result = "store error"
        /\ c.failedAt = "updatePassword"
        /\ c.issued = <<"reauth", "updateEmail", "updatePassword">>
        /\ accounts[c.userRead.id].email = c.profile.email
        /\ usersDb = c.preUsers

IdentityMutations == {"updateEmail", "updatePassword"}
ProfileCall(c) == c.op = "updateProfile"
\* the form changes the email or gives a new password, and no current password
ChangeWithoutPassword(c) ==
    /\ (c.profile.email # c.userRead.email \/ c.profile.newPassword # "")
    /\ c.profile.currentPassword = ""

C19_State ==
    \A s \in Sessions :
        LET c == call[s] IN
        ProfileCall(c) =>
            /\ (c.userRead = NoUser \/ ChangeWithoutPassword(c)) =>
                    /\ c.pc = "done" /\ c.issued = <<>>
                    /\ c.result = IF c.userRead = NoUser
                                  THEN "Utilisateur non connecte"
                                  ELSE "Mot de passe actuel requis"
                    /\ accounts = c.preAccounts /\ usersDb = c.preUsers
            /\ (c.pc \in IdentityMutations
                    \/ Range(c.issued) \cap IdentityMutations # {}) =>
                    /\ c.reauthed /\ c.issued[1] = "reauth"
                    /\ c.profile.currentPassword # ""
            /\ accounts # c.preAccounts => c.reauthed
C19_Step ==
    accounts' # accounts =>
        \E s \in Sessions :
            /\ ProfileCall(call[s]) /\ call[s].reauthed
            /\ call[s].pc \in IdentityMutations

\* C19: updateProfile rejects, with no service call made and nothing changed,
\* when no user is signed in or when the email differs or a new password is given
\* and currentPassword is empty; updateEmail and updatePassword are called, and
\* the account is changed, only after reauthenticateWithCredential succeeded in
\* the same invocation.
C19_ReauthBeforeIdentityChange == [][C19_Step]_vars /\ []C19_State

\* email and password changed after a successful re-authentication
C19_Witness ==
    \E s \in Sessions :
        LET c == call[s] IN
        /\ ProfileCall(c) /\ c.result = "resolved" /\ c.reauthed
        /\ c.issued = <<"reauth", "updateEmail", "updatePassword", "updateUser">>
        /\ accounts[c.userRead.id] =
                [email |-> c.profile.email, password |-> c.profile.newPassword]
        /\ accounts[c.userRead.id] # c.preAccounts[c.userRead.id]
        /\ user[s].email = c.profile.email

SchoolCall(c) == c.op = "createSchool"

C20_State ==
    \A s \in Sessions :
        LET c   == call[s]
            id  == c.newSchool.id
            uid == c.userRead.id
        IN  SchoolCall(c) =>
            /\ c.userRead = NoUser =>
                    /\ c.pc = "done" /\ c.result = "User not authenticated"
                    /\ c.issued = <<>>
                    /\ schoolsDb = c.preSchools /\ usersDb = c.preUsers
            /\ c.result = "resolved" =>
                    /\ id \notin DOMAIN c.preSchools
                    /\ DOMAIN schoolsDb = DOMAIN c.preSchools \cup {id}
                    /\ \A i \in DOMAIN c.preSchools : schoolsDb[i] = c.preSchools[i]
                    /\ schoolsDb[id].id = id
                    /\ schoolsDb[id].teacherIds = <<uid>>
                    /\ usersDb = [c.preUsers EXCEPT ![uid].schoolId = id]
C20_Step ==
    \A s \in Sessions :
        (SchoolCall(call[s]) /\ call'[s].result = "resolved" /\ call[s].pc # "done") =>
            /\ user'[s] = [user[s] EXCEPT !.schoolId = call[s].newSchool.id]
            /\ user[s].id = call[s].userRead.id
            /\ school'[s] = schoolsDb[call[s].newSchool.id]

\* C20: createSchool rejects with nothing written when no user is signed in;
\* a createSchool that resolves has added exactly one school document, under a
\* new id, whose teacherIds is exactly the caller, has set the schoolId of the
\* caller's users document to that id, and publishes the user with that
\* schoolId and the new school as the current school.
C20_CreateSchool == [][C20_Step]_vars /\ []C20_State

\* a user of school s1 created a school and now belongs to it
C20_Witness ==
    \E s \in Sessions :
        LET c == call[s] IN
        /\ SchoolCall(c) /\ c.result = "resolved"
        /\ c.userRead.schoolId = "s1"
        /\ user[s].schoolId = c.newSchool.id /\ school[s].id = c.newSchool.id
        /\ usersDb[c.userRead.id].schoolId = c.newSchool.id
        /\ school[s].teacherIds = <<c.userRead.id>>

TeacherIds(db, i) == Range(db[i].teacherIds)
AssignedTeacher(c) ==
    /\ c.op = "updateUserSchool" /\ c.result = "resolved"
    /\ c.userId \in DOMAIN usersDb /\ usersDb[c.userId].role = "teacher"
    /\ c.schoolId \in DOMAIN schoolsDb

\* C21: after updateUserSchool(teacherId, schoolId) has assigned a teacher to a
\* school, the school's teacherIds contains teacherId; and the teacherIds of a
\* school never loses a member.
C21_AssignedTeacherListed ==
    \A s \in Sessions :
        LET c == call[s] IN
        /\ AssignedTeacher(c) => c.userId \in TeacherIds(schoolsDb, c.schoolId)
        /\ \A i \in DOMAIN c.preSchools :
                /\ i \in DOMAIN schoolsDb
                /\ TeacherIds(c.preSchools, i) \subseteq TeacherIds(schoolsDb, i)

\* the part of C21 that holds: no school document is changed or removed once
\* written, so teacherIds never loses a member (and never gains one)
C21_TeacherIdsFixed ==
    [][\A i \in DOMAIN schoolsDb :
            i \in DOMAIN schoolsDb' /\ schoolsDb'[i] = schoolsDb[i]]_vars

Succeeded(c) == c.pc = "done" /\ c.result = "resolved"

\* C24: after a successful updateClass(id, patch, true) on a class with a
\* non-null baseId the class id carries the patch, and after a successful
\* deleteClass(id, true) the class id no longer exists, also when the target's
\* datetime is earlier than the current time.
C24_CascadeIncludesTarget ==
    \A s \in Sessions :
        LET c == call[s] IN
        /\ (OnSeries(c, "updateClass") /\ Succeeded(c)) =>
                /\ c.classId \in Ids(classesDb)
                /\ \A f \in DOMAIN c.patch : classesDb[c.classId][f] = c.patch[f]
        /\ (OnSeries(c, "deleteClass") /\ Succeeded(c)) =>
                c.classId \notin Ids(classesDb)

\* the part of C24 that holds: a target dated at or after the time the call
\* read from the clock is in the cascade
C24_FutureTargetIncluded ==
    \A s \in Sessions :
        LET c == call[s] IN
        /\ (OnSeries(c, "updateClass") /\ Succeeded(c)
                /\ c.pre[c.classId].datetime >= c.nowRead) =>
                /\ c.classId \in Ids(classesDb)
                /\ \A f \in DOMAIN c.patch : classesDb[c.classId][f] = c.patch[f]
        /\ (OnSeries(c, "deleteClass") /\ Succeeded(c)
                /\ c.pre[c.classId].datetime >= c.nowRead) =>
                c.classId \notin Ids(classesDb)

\* C25: any two class documents sharing a non-null baseId have different
\* datetime values, in every state reached by addClass and updateClass calls
\* (single or series) with the patch of ClassCard.handleUpdate.
C25_SeriesDatesDistinct ==
    \A i \in Ids(classesDb), j \in Ids(classesDb) :
        (i # j /\ classesDb[i].baseId # NULL
               /\ classesDb[i].baseId = classesDb[j].baseId) =>
            classesDb[i].datetime # classesDb[j].datetime

\* the part of C25 that holds: addClass alone writes a series with distinct dates
C25_AddedDatesDistinct ==
    \A s \in Sessions :
        LET c == call[s] IN
        RecurringAdd(c) =>
            \A i \in Added(c), j \in Added(c) :
                i # j => classesDb[i].datetime # classesDb[j].datetime

RejectedMutation(c) == c.op \in Mutating /\ c.pc = "done" /\ c.result # "resolved"

\* C26: whenever addClass, updateClass, deleteClass, enrollInClass or
\* unenrollFromClass rejects, the class documents are the same as before the
\* call, also when the failing step is the refresh query after the write.
C26_RejectedHasNoEffect ==
    \A s \in Sessions :
        LET c == call[s] IN
        RejectedMutation(c) => classesDb = c.pre

\* the part of C26 that holds: a call rejected at or before its write changed
\* nothing; only the failing refresh leaves a write behind
C26_RejectedBeforeRefresh ==
    \A s \in Sessions :
        LET c == call[s] IN
        RejectedMutation(c) =>
            /\ c.failedAt # "fetch" => (~c.wrote /\ classesDb = c.pre)
            /\ c.failedAt = "fetch" => c.wrote

\* C27: every class of the published list has the schoolId of the published
\* user, and the list is empty whenever the published user is null.
C27_ListOfOwnSchool ==
    \A s \in Sessions :
        /\ user[s] = NoUser => classes[s] = <<>>
        /\ \A k \in DOMAIN classes[s] : classes[s][k].schoolId = user[s].schoolId

\* the part of C27 that holds: what fetchClasses publishes is of the school the
\* user had when the query was built
C27_FetchedOfOwnSchool ==
    [][\A s \in Sessions :
            classes'[s] # classes[s] =>
                \A k \in DOMAIN classes'[s] :
                    classes'[s][k].schoolId = call[s].fetchSchool]_vars

(***************************************************************************)
(* Two sessions (SpecConc): the calls of "a" and "b" interleave at every    *)
(* await, so a call's read copy can be stale when its write is applied.     *)
(***************************************************************************)
Targets(c) == {w.id : w \in c.batch}
EnrollWrote(c) == c.op = "enrollInClass" /\ c.wrote

\* C11: when enrollInClass calls for different users have both written, in any
\* interleaving of their reads, queries and writes, each of those users is a
\* member of every class its call targeted, and every user that was a member of
\* a targeted class when either call started still is.
C11_EnrollsNotLost ==
    \A s \in Sessions : \A t \in Sessions \ {s} :
        LET c == call[s]
            d == call[t]
        IN  (EnrollWrote(c) /\ EnrollWrote(d) /\ c.userId # d.userId) =>
                \A i \in Targets(c) :
                    /\ i \in Ids(classesDb)
                    /\ c.userId \in Members(classesDb[i])
                    /\ Members(c.pre[i]) \subseteq Members(classesDb[i])
                    /\ Members(d.pre[i]) \subseteq Members(classesDb[i])

\* both calls read the same class before either wrote it, then both wrote
C11_Witness ==
    LET c == call["a"]
        d == call["b"]
    IN  /\ EnrollWrote(c) /\ EnrollWrote(d) /\ c.userId # d.userId
        /\ c.classId = d.classId
        /\ d.userId \notin Members(c.classData)
        /\ c.userId \notin Members(d.classData)
        /\ {c.userId, d.userId} \subseteq Members(classesDb[c.classId])

\* the commit step of a cascading (batched) call of session s
BatchCommitStep(s) ==
    /\ call[s].pc = "write" /\ call'[s].pc # "write"
    /\ call[s].op \in ClassOps
    /\ Cascades(call[s].flag, call[s].classData)
\* every write of the batch took effect on the collection, and nothing else did
AllApplied(batch) ==
    /\ \A w \in batch :
            IF w.kind = "delete" THEN w.id \notin Ids(classesDb')
            ELSE /\ w.id \in Ids(classesDb) /\ w.id \in Ids(classesDb')
                 /\ classesDb'[w.id] = WriteResult(classesDb, w)
    /\ \A i \in Ids(classesDb) \ Targets([batch |-> batch]) :
            i \in Ids(classesDb') /\ classesDb'[i] = classesDb[i]
    /\ Ids(classesDb') \subseteq Ids(classesDb)
C14_Step ==
    \A s \in Sessions :
        BatchCommitStep(s) =>
            \/ call'[s].wrote /\ AllApplied(call[s].batch)
            \/ /\ ~call'[s].wrote /\ call'[s].failedAt = "write"
               /\ call'[s].result = "store error"
               /\ classesDb' = classesDb

\* C14: the commit of a series batch of updateClass, deleteClass, enrollInClass
\* or unenrollFromClass, whatever other sessions did since its query, either
\* applies every write of the batch or fails and leaves the collection as it
\* was (as when a document of the set was deleted after the query).
C14_BatchAllOrNothing == [][C14_Step]_vars

\* a batch of two updates failed on a document deleted after the query, and
\* the document that is still there was not touched
C14_Witness ==
    \E s \in Sessions :
        LET c == call[s] IN
        /\ c.op \in ClassOps \ {"deleteClass"} /\ Cascades(c.flag, c.classData)
        /\ c.failedAt = "write" /\ ~c.outage
        /\ \E i \in c.snapshot, j \in c.snapshot :
                /\ i \notin Ids(classesDb)
                /\ j \in Ids(classesDb) /\ classesDb[j] = c.pre[j]

\* the step in which updateClass's write is applied
UpdateWriteStep(s) ==
    /\ call[s].op = "updateClass"
    /\ call[s].pc = "write" /\ call'[s].wrote

\* C15 as stated: updateClass's write is a full-document overwrite, so after it
\* the target is the copy the call read with the patch applied, and a change
\* another caller made since that read to a field outside the patch is gone.
C15_FullOverwriteStep ==
    \A s \in Sessions :
        (UpdateWriteStep(s) /\ call[s].classId \in Targets(call[s])) =>
            classesDb'[call[s].classId] = Merge(call[s].classData, call[s].patch)
C15_FullOverwrite == [][C15_FullOverwriteStep]_vars

C15_PatchFieldsOnlyStep ==
    \A s \in Sessions :
        UpdateWriteStep(s) =>
            \A i \in Targets(call[s]) :
                \A f \in DOMAIN classesDb[i] :
                    classesDb'[i][f] = IF f \in DOMAIN call[s].patch
                                       THEN call[s].patch[f]
                                       ELSE classesDb[i][f]

\* C15 (amended): updateClass's write replaces the fields contained in the patch,
\* whatever another caller wrote to them since the read, and leaves every other
\* field of the written documents at the value stored just before the write.
C15_PatchFieldsOnly == [][C15_PatchFieldsOnlyStep]_vars

\* another caller changed enrolledStudents between the read and the write, and
\* the change is still there after updateClass wrote
C15_Witness ==
    \E s \in Sessions :
        LET c == call[s] IN
        /\ c.op = "updateClass" /\ c.wrote /\ c.raced
        /\ c.classId \in Ids(classesDb)
        /\ classesDb[c.classId].enrolledStudents # c.classData.enrolledStudents
        /\ classesDb[c.classId].maxStudents = c.patch.maxStudents

NoDuplicates(arr) == Cardinality(Range(arr)) = Len(arr)

KeptByForm == {"id", "baseId", "schoolId", "enrolledStudents"}
\* the step in which the write of a class operation of session s is applied
ClassWriteStep(s) ==
    /\ call[s].op \in Mutating
    /\ call[s].pc = "write" /\ call'[s].wrote
\* the fields operation c may change on a document of its target set
MayChange(c) ==
    CASE c.op = "updateClass" -> DOMAIN c.patch \ KeptByForm
      [] c.op \in {"enrollInClass", "unenrollFromClass"} -> {"enrolledStudents"}
      [] OTHER -> {}
C22_Step ==
    /\ classesDb' # classesDb => \E s \in Sessions : ClassWriteStep(s)
    /\ \A s \in Sessions :
            ClassWriteStep(s) =>
                \A i \in Ids(classesDb) :
                    IF i \in Targets(call[s])
                    THEN i \in Ids(classesDb') =>
                            \A f \in DOMAIN classesDb[i] \ MayChange(call[s]) :
                                classesDb'[i][f] = classesDb[i][f]
                    ELSE i \in Ids(classesDb') /\ classesDb'[i] = classesDb[i]

\* C22: a write of updateClass changes, on each document of its target set, only
\* fields of the patch (never id, baseId, schoolId or enrolledStudents with the
\* patch of ClassCard.handleUpdate); a write of enrollInClass or unenrollFromClass
\* changes only enrolledStudents; no class document outside the target set of
\* the writing operation changes, and nothing but such a write changes one.
C22_Frame == [][C22_Step]_vars

\* an update changed maxStudents of a class with students and kept them
C22_Witness ==
    \E s \in Sessions :
        LET c == call[s] IN
        /\ c.op = "updateClass" /\ c.wrote /\ c.classId \in Ids(classesDb)
        /\ c.pre[c.classId].enrolledStudents # <<>>
        /\ classesDb[c.classId].enrolledStudents = c.pre[c.classId].enrolledStudents
        /\ classesDb[c.classId].maxStudents # c.pre[c.classId].maxStudents
        /\ classesDb[c.classId].maxStudents = c.patch.maxStudents

C28_Step ==
    \A i \in Ids(classesDb') \ Ids(classesDb) :
        \E s \in Sessions :
            /\ call[s].op = "addClass" /\ call[s].pc = "write"
            /\ i \in Targets(call[s]) /\ i >= call[s].firstId
C28_State ==
    \A s \in Sessions :
        LET c == call[s] IN
        (c.op \in ClassOps \ {"deleteClass"} /\ c.wrote) =>
            Targets(c) \subseteq Ids(c.pre)

\* C28: a class id that is not in the collection enters it only by the write
\* of an addClass, under a reference drawn by that call; updateClass,
\* enrollInClass and unenrollFromClass write only to documents that exist, so
\* a deleted class id never exists again, under any interleaving.
C28_OnlyAddClassCreates == [][C28_Step]_vars /\ []C28_State

\* a delete landed between another operation's read and its write: the write
\* failed and the class is still gone
C28_Witness ==
    \E s \in Sessions : \E t \in Sessions \ {s} :
        LET c == call[s]
            d == call[t]
        IN  /\ c.op \in ClassOps \ {"deleteClass"} /\ ~c.flag
            /\ c.classData # NoClass /\ c.failedAt = "write" /\ ~c.outage
            /\ d.op = "deleteClass" /\ d.wrote /\ c.classId \in Targets(d)
            /\ c.classId \notin Ids(classesDb)

(***************************************************************************)
(* Card enrollment (SpecCard)                                              *)
(***************************************************************************)
\* C23: when every enrollment is a single-occurrence enrollInClass issued
\* through ClassCard, enabled only while the card's published copy has a free
\* spot, enrolledStudents.size <= maxStudents holds for every class in every
\* reachable state, also when several students act on the same class.
C23_CapacityKept ==
    \A i \in Ids(classesDb) :
        Len(classesDb[i].enrolledStudents) <= classesDb[i].maxStudents

\* the part of C23 that holds: measured on the copy its card shows, an
\* enrollment is started only into a free spot
C23_CardSawFreeSpot ==
    [][\A s \in Sessions :
            (call'[s] # call[s] /\ call'[s].op = "enrollInClass"
                /\ call'[s].pc = "getDoc") =>
                \E k \in DOMAIN classes[s] :
                    /\ classes[s][k].id = call'[s].classId
                    /\ Len(classes[s][k].enrolledStudents) < classes[s][k].maxStudents]_vars

(***************************************************************************)
(* Overlapping operations of one tab (SpecOverlap)                         *)
(***************************************************************************)
BothResolved ==
    /\ ResolvedMutation(call["a"]) /\ call["a"].refreshed
    /\ ResolvedMutation(call["a2"]) /\ call["a2"].refreshed

\* C29: when one client has issued two mutating class operations whose
\* executions overlap, then after both have resolved the published list equals
\* the upcoming-classes query over the final collection.
C29_ListCurrentAfterBoth ==
    BothResolved => classes["a"] = Upcoming(call["a"])

\* the part of C29 that holds: the list is the answer to the refresh query of
\* one of the two operations
C29_ListIsOneAnswer ==
    BothResolved =>
        \/ classes["a"] = Sorted(call["a"].fetched)
        \/ classes["a"] = Sorted(call["a2"].fetched)


(***************************************************************************)
(*                 The auth observer and isLoading (SpecAuth)              *)
(***************************************************************************)

\* the callback has handled an event and every read it awaited has returned
Handled(st) == listener[st].pc = "done" /\ ~listener[st].failed

\* C30: once the observer has handled an auth-state event and its reads have
\* returned, isLoading eventually becomes false, also when the event is for a
\* signed-in identity whose users document does not exist.  (Only loading the
\* page again sets isLoading back to true, so false then stays false.)
C30_LoadingClears ==
    Handled("a") ~> ~isLoading["a"]

\* the part of C30 that holds: an event without a signed-in identity, or for an
\* identity whose users document was found, leaves isLoading false
C30_ClearsWhenDocFound ==
    (Handled("a") /\ (listener["a"].uid = NoUid \/ listener["a"].found))
        => ~isLoading["a"]

\* the case C30 singles out: handled, no users document, still loading
C30_StuckLoading ==
    /\ Handled("a") /\ listener["a"].uid # NoUid /\ ~listener["a"].found
    /\ listener["a"].queue = <<>> /\ Free("a")
    /\ isLoading["a"]

====
